---- MODULE Spec2Model ----
(***************************************************************************)
(* Model of utils/create-timestamped-excel-workbook.py: main() and         *)
(* create_timestamped_excel_workbook(reports_dir, timestamp).              *)
(*                                                                         *)
(* A CSV table is a sequence of columns; a column is the sequence of the   *)
(* values len(str(cell.value)) of its cells, header cell first.  The       *)
(* library calls (ExcelWriter construction and close, read_csv, to_excel,  *)
(* the worksheet formatting calls) may raise; which of them raises is an   *)
(* input chosen in the action that makes the call.  print is total.        *)
(***************************************************************************)
EXTENDS Integers, Sequences, FiniteSets

\* ---------------------------------------------------------------- bounds
MaxArgs == 3
MaxCols == 2
MaxRows == 1

\* ------------------------------------------------------- program constants
NumFiles == 7
WidthPad == 2
WidthCap == 50

SheetNames ==
  << "Master Import Guide", "Summary Dashboard", "All Links Catalog",
     "Menu Navigation", "Broken Links Details", "Test Results",
     "Recommendations" >>

\* Mutant of csv_files: two entries of the dictionary swapped.
csv_files_swapped(k) ==
  SheetNames[IF k = 2 THEN 3 ELSE IF k = 3 THEN 2 ELSE k]

\* csv_files: the sheet name of the k-th (filename, sheet-name) pair, in the
\* dictionary's insertion order, which is the order the loop visits.
csv_files(k) ==
  SheetNames[k]

\* ------------------------------------------------------------------ inputs
\* Text lengths of cells: short, exactly at the cap after padding, above it.
Lens == {1, 48, 49}

\* All tables read_csv can return within the bounds.
Tables ==
  UNION { [1..c -> [1..(r + 1) -> Lens]] : c \in 1..MaxCols, r \in 0..MaxRows }

\* Two fixed tables for the runs over all seven files: header only, one row.
SampleTables ==
  { << <<5>> >>, << <<5, 49>> >> }

\* len(df): the number of data rows (the header is not a row).
RowCount(t) ==
  Len(t[1]) - 1

\* ------------------------------------------------------------------- state
VARIABLES
  pc,             \* "main", "loop", "returned", "exited"
  argc,           \* number of CLI arguments after the program name
  i,              \* 1-based position of the loop in csv_files
  writer,         \* "none", "failed", "open", "closed", "close_failed"
  closeCalls,     \* number of times the writer's __exit__/close ran
  sheets,         \* titles of the sheets in writer.book, in workbook order
  sheets_created, \* the local counter
  df,             \* the local df of the current iteration (<<>>: unbound)
  worksheet,      \* the local worksheet of the current iteration
  log,            \* what has been printed: <<kind, position>>
  existsCalls,    \* number of os.path.exists calls made
  result,         \* "none" until the function returns, then "True"/"False"
  exitCode        \* -1 while the process runs

vars ==
  << pc, argc, i, writer, closeCalls, sheets, sheets_created, df, worksheet,
     log, existsCalls, result, exitCode >>

\* No worksheet bound, or none formatted yet.
NoWorksheet ==
  [title |-> "", width |-> <<>>, bold |-> <<>>]

\* -------------------------------------------------------------- formatting
Min(a, b) ==
  IF a < b THEN a ELSE b

RECURSIVE MaxLengthFrom(_, _, _)
\* The inner loop: for cell in column: if len(str(cell.value)) > max_length.
MaxLengthFrom(column, k, max_length) ==
  IF k > Len(column) THEN max_length
  ELSE MaxLengthFrom(column, k + 1,
                     IF column[k] > max_length THEN column[k] ELSE max_length)

\* Mutant of adjusted_width: the cap of 50 is missing.
adjusted_width_nocap(column) ==
  MaxLengthFrom(column, 1, 0) + WidthPad

\* adjusted_width = min(max_length + 2, 50), max_length starting at 0.
adjusted_width(column) ==
  Min(MaxLengthFrom(column, 1, 0) + WidthPad, WidthCap)

\* The worksheet after the width loop stopped before column k (k past the
\* last column: the loop completed).  Width 0: the column was not set.
WidthsUpTo(t, k) ==
  [c \in 1..Len(t) |-> IF c < k THEN adjusted_width(t[c]) ELSE 0]

\* Header cells made bold before cell k; none when len(df) > 0 is false.
BoldUpTo(t, k) ==
  [c \in 1..Len(t) |-> RowCount(t) > 0 /\ c < k]

\* --------------------------------------------------------------- main guard
\* Mutant of UsageError: the comparison is against 2 instead of 3.
UsageErrorOffByOne ==
  argc + 1 < 2

\* len(sys.argv) < 3, sys.argv holding the program name and the arguments.
UsageError ==
  argc + 1 < 3

\* ---------------------------------------------------------- function exits
\* Mutant of ReturnValue: >= instead of >.
ReturnValueGe(n) ==
  IF n >= 0 THEN "True" ELSE "False"

\* if sheets_created > 0: return True  else: return False
ReturnValue(n) ==
  IF n > 0 THEN "True" ELSE "False"

\* Mutant of WithExit: no scoped acquisition, close only on the success path.
WithExitSuccessOnly(ret, raises) ==
  IF ret = "True"
  THEN [writer |-> IF raises THEN "close_failed" ELSE "closed", calls |-> 1]
  ELSE [writer |-> "open", calls |-> 0]

\* Leaving the with block runs the writer's __exit__, which closes it once,
\* whatever the return value in flight; close may raise.
WithExit(ret, raises) ==
  [writer |-> IF raises THEN "close_failed" ELSE "closed", calls |-> 1]

\* Mutant of TopLevelExcept: the return value in flight wins over the error.
TopLevelExceptKeepsReturn(ret, raises) ==
  ret

\* except Exception as e: print(...); return False
TopLevelExcept(ret, raises) ==
  IF raises THEN "False" ELSE ret

\* Mutant of ExitStatus: the two statuses exchanged.
ExitStatusInverted(success) ==
  IF success = "True" THEN 1 ELSE 0

\* sys.exit(0 if success else 1)
ExitStatus(success) ==
  IF success = "True" THEN 0 ELSE 1

\* -------------------------------------------------------------------- Init
Init ==
  /\ pc = "main"
  /\ argc \in 0..MaxArgs
  /\ i = 1
  /\ writer = "none"
  /\ closeCalls = 0
  /\ sheets = <<>>
  /\ sheets_created = 0
  /\ df = <<>>
  /\ worksheet = NoWorksheet
  /\ log = <<>>
  /\ existsCalls = 0
  /\ result = "none"
  /\ exitCode = -1

\* ----------------------------------------------------------------- actions
\* main, lines 105-107: usage text and sys.exit(1).
MainUsage ==
  /\ pc = "main"
  /\ UsageError
  /\ log' = Append(log, <<"usage", 0>>)
  /\ exitCode' = 1
  /\ pc' = "exited"
  /\ UNCHANGED << argc, i, writer, closeCalls, sheets, sheets_created, df,
                  worksheet, existsCalls, result >>

\* main calls the function; pd.ExcelWriter(...) either opens the writer
\* (sheets_created = 0, the loop starts) or raises into the top-level except.
OpenWriter ==
  /\ pc = "main"
  /\ ~UsageError
  /\ \/ /\ writer' = "open"
        /\ sheets_created' = 0
        /\ pc' = "loop"
        /\ UNCHANGED << log, result >>
     \/ /\ writer' = "failed"
        /\ log' = Append(log, <<"failed", 0>>)
        /\ result' = TopLevelExcept("none", TRUE)
        /\ pc' = "returned"
        /\ UNCHANGED sheets_created
  /\ UNCHANGED << argc, i, closeCalls, sheets, df, worksheet, existsCalls,
                  exitCode >>

\* One iteration of the for loop over csv_files, lines 46-86, reading a
\* table out of T when the file exists and parses.
ProcessFile(T) ==
  /\ pc = "loop"
  /\ i <= NumFiles
  /\ existsCalls' = existsCalls + 1
  /\ i' = i + 1
  /\ \/ \* os.path.exists(csv_path) is false
        /\ log' = Append(log, <<"not_found", i>>)
        /\ df' = <<>>
        /\ worksheet' = NoWorksheet
        /\ UNCHANGED << sheets, sheets_created >>
     \/ \* pd.read_csv raises
        /\ log' = Append(log, <<"could_not_process", i>>)
        /\ df' = <<>>
        /\ worksheet' = NoWorksheet
        /\ UNCHANGED << sheets, sheets_created >>
     \/ \* df.to_excel raises, before or after it added the sheet to the book
        \E t \in T, added \in BOOLEAN :
          /\ log' = Append(log, <<"could_not_process", i>>)
          /\ df' = t
          /\ worksheet' = NoWorksheet
          /\ sheets' = IF added THEN Append(sheets, csv_files(i)) ELSE sheets
          /\ UNCHANGED sheets_created
     \/ \* the width loop raises at column k
        \E t \in T :
          \E k \in 1..Len(t) :
            /\ log' = Append(log, <<"could_not_process", i>>)
            /\ df' = t
            /\ sheets' = Append(sheets, csv_files(i))
            /\ worksheet' = [title |-> csv_files(i),
                             width |-> WidthsUpTo(t, k),
                             bold  |-> BoldUpTo(t, 1)]
            /\ UNCHANGED sheets_created
     \/ \* the header formatting raises at cell k of row 1
        \E t \in T :
          \E k \in 1..Len(t) :
            /\ RowCount(t) > 0
            /\ log' = Append(log, <<"could_not_process", i>>)
            /\ df' = t
            /\ sheets' = Append(sheets, csv_files(i))
            /\ worksheet' = [title |-> csv_files(i),
                             width |-> WidthsUpTo(t, Len(t) + 1),
                             bold  |-> BoldUpTo(t, k)]
            /\ UNCHANGED sheets_created
     \/ \* the block completes
        \E t \in T :
          /\ log' = Append(log, <<"sheet_created", i>>)
          /\ df' = t
          /\ sheets' = Append(sheets, csv_files(i))
          /\ worksheet' = [title |-> csv_files(i),
                           width |-> WidthsUpTo(t, Len(t) + 1),
                           bold  |-> BoldUpTo(t, Len(t) + 1)]
          /\ sheets_created' = sheets_created + 1
  /\ UNCHANGED << pc, argc, writer, closeCalls, result, exitCode >>

\* After the loop, lines 88-101: the summary, the return inside the with
\* block, the writer's __exit__, and the top-level except if close raises.
\* The locals die with the call.
Finish ==
  /\ pc = "loop"
  /\ i > NumFiles
  /\ \E raises \in BOOLEAN :
       LET ret  == ReturnValue(sheets_created)
           exit == WithExit(ret, raises)
           summary == <<IF ret = "True" THEN "success" ELSE "no_sheets", 0>>
       IN
         /\ writer' = exit.writer
         /\ closeCalls' = closeCalls + exit.calls
         /\ result' = TopLevelExcept(ret, raises)
         /\ log' = IF raises
                   THEN log \o << summary, <<"failed", 0>> >>
                   ELSE Append(log, summary)
  /\ df' = <<>>
  /\ worksheet' = NoWorksheet
  /\ pc' = "returned"
  /\ UNCHANGED << argc, i, sheets, sheets_created, existsCalls, exitCode >>

\* main, line 113: sys.exit(0 if success else 1).
Exit ==
  /\ pc = "returned"
  /\ exitCode' = ExitStatus(result)
  /\ pc' = "exited"
  /\ UNCHANGED << argc, i, writer, closeCalls, sheets, sheets_created, df,
                  worksheet, log, existsCalls, result >>

Next ==
  \/ MainUsage
  \/ OpenWriter
  \/ ProcessFile(SampleTables)
  \/ Finish
  \/ Exit

Spec ==
  Init /\ [][Next]_vars

\* ------------------------------------------- the formatting of one sheet
\* The run in which the first six files are absent, at the point where the
\* loop reaches the seventh; its content ranges over Tables.
InitFmt ==
  /\ pc = "loop"
  /\ argc = 2
  /\ i = NumFiles
  /\ writer = "open"
  /\ closeCalls = 0
  /\ sheets = <<>>
  /\ sheets_created = 0
  /\ df = <<>>
  /\ worksheet = NoWorksheet
  /\ log = [k \in 1..(NumFiles - 1) |-> <<"not_found", k>>]
  /\ existsCalls = NumFiles - 1
  /\ result = "none"
  /\ exitCode = -1

NextFmt ==
  \/ ProcessFile(Tables)
  \/ Finish
  \/ Exit

SpecFmt ==
  InitFmt /\ [][NextFmt]_vars

\* ------------------------------------------------------------ vocabulary
\* Positions in csv_files for which a line of the given kind was printed.
Logged(kind) ==
  { log[k][2] : k \in { n \in 1..Len(log) : log[n][1] = kind } }

Created  == Logged("sheet_created")
Failed   == Logged("could_not_process")
NotFound == Logged("not_found")

\* The function was called and has returned (or main has exited after it).
Returned ==
  pc \in {"returned", "exited"} /\ writer # "none"

\* The loop has just completed the per-file block of a file.
BlockCompleted ==
  /\ pc = "loop"
  /\ i > 1
  /\ log[Len(log)] = <<"sheet_created", i - 1>>

\* Position of a sheet title in the fixed ReportSet order.
OrderOf(name) ==
  CHOOSE k \in 1..NumFiles : SheetNames[k] = name

\* The greatest element of a non-empty set of numbers.
Greatest(S) ==
  CHOOSE m \in S : \A x \in S : x <= m

\* The titles of the files in K, in ReportSet order.
RECURSIVE NamesOf(_, _)
NamesOf(K, k) ==
  IF k > NumFiles THEN <<>>
  ELSE (IF k \in K THEN <<SheetNames[k]>> ELSE <<>>) \o NamesOf(K, k + 1)

\* ------------------------------------------------------------------ claims
\* C1: the function returns true if and only if, after all 7 pairs were
\* processed, the created-sheet counter is greater than 0 and the writer
\* opened and closed without raising; with a counter of 0 it returns false.
\* The counter is the number of files reported as created, whatever the
\* per-file outcomes were.
C1_ReturnIffCounterPositive ==
  /\ sheets_created = Cardinality(Created)
  /\ Returned =>
       /\ result = "True" <=> (sheets_created > 0 /\ writer = "closed")
       /\ sheets_created = 0 => result = "False"
       /\ writer = "failed" \/ Cardinality(Created \cup Failed \cup NotFound) = NumFiles

C1_Witness ==
  /\ Returned
  /\ result = "True"
  /\ Failed # {}
  /\ NotFound # {}
  /\ sheets_created = 2

\* C2: the exit code is 0 exactly when the function returned true (so at
\* least one sheet was created), and 1 in every other case: usage error,
\* zero sheets created, or the writer could not be opened.  No other exit
\* code is produced.
C2_ExitCode ==
  /\ pc # "exited" => exitCode = -1
  /\ pc = "exited" =>
       /\ exitCode \in {0, 1}
       /\ exitCode = 0 <=> result = "True"
       /\ exitCode = 0 => (sheets_created > 0 /\ argc >= 2)
       /\ (argc < 2 \/ sheets_created = 0 \/ writer = "failed") => exitCode = 1

C2_Witness ==
  /\ pc = "exited"
  /\ exitCode = 0
  /\ sheets_created = 1
  /\ argc = 3

\* C3: with fewer than 2 CLI arguments main prints the usage text and exits
\* with code 1 without touching the filesystem: no existence check is made
\* and no writer is opened, the function is never called.
C3_UsageTouchesNothing ==
  argc < 2 =>
    /\ existsCalls = 0
    /\ writer = "none"
    /\ closeCalls = 0
    /\ sheets = <<>>
    /\ result = "none"
    /\ pc \in {"main", "exited"}
    /\ pc = "exited" => (exitCode = 1 /\ log = << <<"usage", 0>> >>)

C3_Witness ==
  /\ argc = 1
  /\ pc = "exited"
  /\ exitCode = 1

\* C4: the sheets of the workbook appear in the fixed ReportSet order with
\* no title twice: the sheet sequence is the subsequence of the fixed order
\* restricted to the files that produced a sheet, and when all 7 files were
\* created it is exactly the 7 titles in that order.
C4_SheetOrder ==
  /\ \A a, b \in 1..Len(sheets) :
       a < b => OrderOf(sheets[a]) < OrderOf(sheets[b])
  /\ sheets = NamesOf({ OrderOf(sheets[a]) : a \in 1..Len(sheets) }, 1)
  /\ Created \subseteq { OrderOf(sheets[a]) : a \in 1..Len(sheets) }
  /\ Cardinality(Created) = NumFiles => sheets = SheetNames

C4_Witness ==
  /\ Returned
  /\ Created = 1..NumFiles
  /\ sheets = SheetNames

C4_WitnessSubset ==
  /\ Returned
  /\ Created = {2, 6}
  /\ sheets = << "Summary Dashboard", "Test Results" >>

\* The parts of C5 about missing files and the empty subset, on their own.
MissingFilesLeaveNoSheet ==
  Returned /\ writer # "failed" =>
    /\ \A k \in NotFound : csv_files(k) \notin { sheets[a] : a \in 1..Len(sheets) }
    /\ Cardinality(NotFound) = NumFiles => (result = "False" /\ sheets = <<>>)

\* C5: for every subset of present files the number of sheets in the
\* workbook equals the number of present files that were processed
\* successfully; a missing file produces no sheet and leaves the counter
\* unchanged; for the empty subset the function returns false and the
\* workbook has no sheet.
C5_SheetCountIsSuccessCount ==
  Returned /\ writer # "failed" =>
    /\ Len(sheets) = Cardinality(Created)
    /\ \A k \in NotFound : csv_files(k) \notin { sheets[a] : a \in 1..Len(sheets) }
    /\ Cardinality(NotFound) = NumFiles => (result = "False" /\ sheets = <<>>)

\* C6: if exactly one of the 7 present files makes its per-file block raise,
\* that file's sheet is skipped, every other file still produces its sheet,
\* and the overall result is success, wherever the failing file stands.
C6_OneFailureSkipsOneSheet ==
  (Returned /\ writer = "closed" /\ NotFound = {} /\ Cardinality(Failed) = 1) =>
    /\ sheets = NamesOf(1..NumFiles \ Failed, 1)
    /\ result = "True"

\* C7: no exception escapes the function and it always returns a boolean:
\* if constructing or finalizing the writer raises, the top-level handler
\* returns false, even when a success return was already in flight; and the
\* call always runs on to its return.
C7_AlwaysReturnsBoolean ==
  /\ result \in {"none", "True", "False"}
  /\ pc \in {"returned", "exited"} /\ argc >= 2 => result \in {"True", "False"}
  /\ writer \in {"failed", "close_failed"} => result = "False"
  /\ pc \in {"main", "loop"} => ENABLED Next

C7_Witness ==
  /\ Returned
  /\ writer = "close_failed"
  /\ sheets_created > 0
  /\ result = "False"

C7_WitnessOpenFails ==
  /\ Returned
  /\ writer = "failed"
  /\ result = "False"

\* C8: once the writer has been opened it is finalized exactly once on every
\* exit path (success return, zero-sheets return, exception leaving the
\* scope), and the function never returns while the writer is still open.
C8_WriterClosedOnce ==
  /\ closeCalls <= 1
  /\ writer \in {"none", "failed", "open"} => closeCalls = 0
  /\ writer \in {"closed", "close_failed"} => closeCalls = 1
  /\ pc \in {"returned", "exited"} => writer # "open"
  /\ pc = "loop" => writer = "open"

C8_Witness ==
  /\ Returned
  /\ sheets_created = 0
  /\ writer = "close_failed"
  /\ closeCalls = 1
  /\ result = "False"

C8_WitnessSuccess ==
  /\ Returned
  /\ result = "True"
  /\ closeCalls = 1

C8_WitnessZeroSheets ==
  /\ Returned
  /\ sheets_created = 0
  /\ writer = "closed"
  /\ closeCalls = 1

\* C9: for every sheet created each column's width is min(L + 2, 50), L the
\* greatest text length over the column's header and values (so at most 50
\* and at least 2); the header row is bold if and only if the table has at
\* least 1 data row; a file with a header and 0 rows still produces a sheet
\* that counts toward success, with no bold applied.
C9_WidthsAndBold ==
  /\ (Returned /\ Created # {} /\ writer = "closed") => result = "True"
  /\ BlockCompleted =>
      /\ worksheet.title = sheets[Len(sheets)]
      /\ Len(worksheet.width) = Len(df)
      /\ \A c \in 1..Len(df) :
           LET L == Greatest({ df[c][r] : r \in 1..Len(df[c]) }) IN
             /\ worksheet.width[c] = (IF L + 2 < 50 THEN L + 2 ELSE 50)
             /\ worksheet.width[c] <= 50
             /\ worksheet.width[c] >= 2
             /\ worksheet.bold[c] <=> (Len(df[c]) >= 2)
      /\ sheets_created > 0

C9_Witness ==
  /\ BlockCompleted
  /\ Len(df) = 2
  /\ RowCount(df) = 1
  /\ worksheet.width = <<50, 3>>
  /\ df[1] = <<1, 49>>
  /\ worksheet.bold = <<TRUE, TRUE>>

C9_WitnessZeroRows ==
  /\ BlockCompleted
  /\ RowCount(df) = 0
  /\ worksheet.bold = <<FALSE>>
  /\ worksheet.width = <<50>>
  /\ sheets_created = 1

\* C10: at every point of the loop the created-sheet counter equals the
\* number of sheets written into the workbook (a file whose block raises at
\* any step leaves no sheet behind), so the function returns true exactly
\* when the workbook contains at least one sheet.
C10_CounterIsSheetCount ==
  /\ sheets_created = Len(sheets)
  /\ (Returned /\ writer = "closed") => (result = "True" <=> Len(sheets) > 0)

====
